---- MODULE Spec2Model ----
(***************************************************************************)
(* BetterVCardTools: the vCard parsing / normalisation / vCard 4.0         *)
(* serialisation engine of app/vcards.py (and its twin helpers in          *)
(* app/utils.py), and the upload pipeline of app/main.py.                  *)
(*                                                                         *)
(* Text is modelled at character level: a Python str is a sequence of      *)
(* one-character strings, so "a;b" is <<"a", ";", "b">>.  Optional values  *)
(* are None (the empty tuple) or Some(v) (a one-element tuple).            *)
(***************************************************************************)
EXTENDS Naturals, Sequences, FiniteSets, TLC

VARIABLES
    mode,       \* "upload" (main.upload) | "library" (contacts_to_vcards40 called directly)
    text,       \* the input as vobject.readComponents yields it: raw components
    pc,         \* position in the pipeline
    i,          \* parse_vcards: number of components read so far
    contacts,   \* parse_vcards: the local list being built
    result,     \* what the caller of parse_vcards holds: None or Some(list)
    j,          \* contacts_to_vcards40: number of contacts serialised so far
    out,        \* contacts_to_vcards40: the text joined so far
    response,   \* main.upload: None or Some(body) streamed back
    call,       \* a direct call of one helper function: its name and arguments
    ret,        \* that call's return value
    fpc         \* "idle" | "call" | "returned"

vars == <<mode, text, pc, i, contacts, result, j, out, response, call, ret, fpc>>

------------------------------------------------------------------------------
(* Python values *)

None == <<>>
Some(v) == <<v>>
IsNone(o) == o = <<>>
Get(o) == o[1]

\* A Python value that is either a str or a list of str (isinstance dispatch).
PyStr(s) == [t |-> "str", v |-> s]
PyList(xs) == [t |-> "list", v |-> xs]

------------------------------------------------------------------------------
(* Characters *)

\* Printable ASCII in code-point order, U+0020 .. U+007E (the double quote
\* U+0022 and the grave accent U+0060 are not used by the model; a
\* placeholder keeps their place).
Ascii ==
    <<" ","!","QUOTE","#","$","%","&","'","(",")","*","+",",","-",".","/",
      "0","1","2","3","4","5","6","7","8","9",":",";","<","=",">","?","@",
      "A","B","C","D","E","F","G","H","I","J","K","L","M","N","O","P","Q",
      "R","S","T","U","V","W","X","Y","Z","[","\\","]","^","_","GRAVE",
      "a","b","c","d","e","f","g","h","i","j","k","l","m","n","o","p","q",
      "r","s","t","u","v","w","x","y","z","{","|","}","~">>

\* The characters outside printable ASCII that the model uses, named by their
\* code point: the whitespace of str.isspace beyond " \t\n\f\r" (U+000B,
\* U+001C..U+001F, U+0085, U+00A0, U+1680, U+2000..U+200A, U+2028, U+2029,
\* U+202F, U+205F, U+3000) and the letters U+00C5, U+00C9, U+00E4, U+00E5,
\* U+00E9, U+00EB.
NamedChars ==
    <<[c |-> "U+000B", cp |-> 11],
      [c |-> "U+001C", cp |-> 28],
      [c |-> "U+001D", cp |-> 29],
      [c |-> "U+001E", cp |-> 30],
      [c |-> "U+001F", cp |-> 31],
      [c |-> "U+0085", cp |-> 133],
      [c |-> "U+00A0", cp |-> 160],
      [c |-> "U+00C5", cp |-> 197],
      [c |-> "U+00C9", cp |-> 201],
      [c |-> "U+00E4", cp |-> 228],
      [c |-> "U+00E5", cp |-> 229],
      [c |-> "U+00E9", cp |-> 233],
      [c |-> "U+00EB", cp |-> 235],
      [c |-> "U+1680", cp |-> 5760],
      [c |-> "U+2000", cp |-> 8192],
      [c |-> "U+2001", cp |-> 8193],
      [c |-> "U+2002", cp |-> 8194],
      [c |-> "U+2003", cp |-> 8195],
      [c |-> "U+2004", cp |-> 8196],
      [c |-> "U+2005", cp |-> 8197],
      [c |-> "U+2006", cp |-> 8198],
      [c |-> "U+2007", cp |-> 8199],
      [c |-> "U+2008", cp |-> 8200],
      [c |-> "U+2009", cp |-> 8201],
      [c |-> "U+200A", cp |-> 8202],
      [c |-> "U+2028", cp |-> 8232],
      [c |-> "U+2029", cp |-> 8233],
      [c |-> "U+202F", cp |-> 8239],
      [c |-> "U+205F", cp |-> 8287],
      [c |-> "U+3000", cp |-> 12288]>>

IsNamed(c) == \E k \in 1..Len(NamedChars) : NamedChars[k].c = c

\* ord(c) for the characters the model uses.
CodePoint(c) ==
    CASE c = "\t" -> 9
      [] c = "\n" -> 10
      [] c = "\f" -> 12
      [] c = "\r" -> 13
      [] IsNamed(c) ->
             NamedChars[CHOOSE k \in 1..Len(NamedChars) : NamedChars[k].c = c].cp
      [] OTHER -> 31 + (CHOOSE k \in 1..Len(Ascii) : Ascii[k] = c)

\* str.isspace / the regex class \s / what str.strip removes: the same set of
\* characters in Python 3
IsSpace(c) ==
    c \in {" ", "\t", "\n", "\r", "\f",
     "U+000B", "U+001C", "U+001D", "U+001E", "U+001F", "U+0085", "U+00A0",
     "U+1680", "U+2000", "U+2001", "U+2002", "U+2003", "U+2004", "U+2005",
     "U+2006", "U+2007", "U+2008", "U+2009", "U+200A", "U+2028", "U+2029",
     "U+202F", "U+205F", "U+3000"}

IsUpper(c) == CodePoint(c) >= 65 /\ CodePoint(c) <= 90

\* str.lower() on one character
LowerChar(c) ==
    IF IsUpper(c) THEN Ascii[CodePoint(c) + 32 - 31]
    ELSE IF c = "U+00C9" THEN "U+00E9"
    ELSE IF c = "U+00C5" THEN "U+00E5"
    ELSE c

------------------------------------------------------------------------------
(* str methods *)

\* s.lower()
Lower(s) == [k \in 1..Len(s) |-> LowerChar(s[k])]

\* s.startswith(p)
StartsWith(s, p) == Len(s) >= Len(p) /\ SubSeq(s, 1, Len(p)) = p

\* s.endswith(p)
EndsWith(s, p) == Len(s) >= Len(p) /\ SubSeq(s, Len(s) - Len(p) + 1, Len(s)) = p

RECURSIVE ReplaceFrom(_, _, _, _)
ReplaceFrom(s, c, r, k) ==
    IF k > Len(s) THEN <<>>
    ELSE (IF s[k] = c THEN r ELSE <<s[k]>>) \o ReplaceFrom(s, c, r, k + 1)

\* s.replace(c, r) for a one-character pattern c
Replace(s, c, r) == ReplaceFrom(s, c, r, 1)

RECURSIVE JoinFrom(_, _, _)
JoinFrom(sep, parts, k) ==
    IF k > Len(parts) THEN <<>>
    ELSE IF k = Len(parts) THEN parts[k]
    ELSE parts[k] \o sep \o JoinFrom(sep, parts, k + 1)

\* sep.join(parts)
Join(sep, parts) == JoinFrom(sep, parts, 1)

RECURSIVE SplitFrom(_, _, _, _)
SplitFrom(s, c, k, cur) ==
    IF k > Len(s) THEN <<cur>>
    ELSE IF s[k] = c THEN <<cur>> \o SplitFrom(s, c, k + 1, <<>>)
    ELSE SplitFrom(s, c, k + 1, Append(cur, s[k]))

\* s.split(c) for a one-character separator: always at least one part
Split(s, c) == SplitFrom(s, c, 1, <<>>)

RECURSIVE LStrip(_)
LStrip(s) == IF s # <<>> /\ IsSpace(s[1]) THEN LStrip(Tail(s)) ELSE s

RECURSIVE RStrip(_)
RStrip(s) ==
    IF s # <<>> /\ IsSpace(s[Len(s)]) THEN RStrip(SubSeq(s, 1, Len(s) - 1)) ELSE s

\* s.strip()
Strip(s) == RStrip(LStrip(s))

\* [x for x in xs if x]: drop the empty strings
NonEmpty(xs) == SelectSeq(xs, LAMBDA x : x # <<>>)

RECURSIVE ReSplitWsFrom(_, _, _)
ReSplitWsFrom(s, k, cur) ==
    IF k > Len(s) THEN <<cur>>
    ELSE IF IsSpace(s[k])
         THEN IF k > 1 /\ IsSpace(s[k - 1])
              THEN ReSplitWsFrom(s, k + 1, cur)
              ELSE <<cur>> \o ReSplitWsFrom(s, k + 1, <<>>)
    ELSE ReSplitWsFrom(s, k + 1, Append(cur, s[k]))

\* re.split(r"\s+", s): split at every maximal run of whitespace
ReSplitWs(s) == ReSplitWsFrom(s, 1, <<>>)

RECURSIVE StripTrailingDots(_)
StripTrailingDots(s) ==
    IF s # <<>> /\ s[Len(s)] = "."
    THEN StripTrailingDots(SubSeq(s, 1, Len(s) - 1)) ELSE s

\* a < b for str: lexicographic by code point
RECURSIVE StrLessFrom(_, _, _)
StrLessFrom(a, b, k) ==
    IF k > Len(a) THEN k <= Len(b)
    ELSE IF k > Len(b) THEN FALSE
    ELSE IF a[k] = b[k] THEN StrLessFrom(a, b, k + 1)
    ELSE CodePoint(a[k]) < CodePoint(b[k])

StrLess(a, b) == StrLessFrom(a, b, 1)

RECURSIVE Sorted(_)
\* sorted(S) for a set of str
Sorted(S) ==
    IF S = {} THEN <<>>
    ELSE LET m == CHOOSE x \in S : \A y \in S : x = y \/ StrLess(x, y)
         IN <<m>> \o Sorted(S \ {m})

\* set(xs)
ToSet(xs) == {xs[k] : k \in 1..Len(xs)}

RECURSIVE Concat(_)
\* the concatenation of a list of lists
Concat(xss) == IF xss = <<>> THEN <<>> ELSE Head(xss) \o Concat(Tail(xss))

------------------------------------------------------------------------------
(* app/vcards.py: literals *)

\* CRLF = "\r\n"
CRLF == <<"\r","\n">>
\* BEGIN:VCARD
S_BEGIN == <<"B","E","G","I","N",":","V","C","A","R","D">>
\* VERSION:4.0
S_VERSION == <<"V","E","R","S","I","O","N",":","4",".","0">>
\* N:
S_N == <<"N",":">>
\* FN:
S_FN == <<"F","N",":">>
\* EMAIL
S_EMAIL == <<"E","M","A","I","L">>
\* TEL
S_TEL == <<"T","E","L">>
\* ;TYPE=
S_TYPE_PARAM == <<";","T","Y","P","E","=">>
\* ;VALUE=uri
S_VALUE_URI == <<";","V","A","L","U","E","=","u","r","i">>
\* tel:
S_TEL_SCHEME == <<"t","e","l",":">>
\* ORG:
S_ORG == <<"O","R","G",":">>
\* BDAY:
S_BDAY == <<"B","D","A","Y",":">>
\* NOTE:
S_NOTE == <<"N","O","T","E",":">>
\* PRODID:-//BetterVCardTools//v1.0//EN
S_PRODID == <<"P","R","O","D","I","D",":","-","/","/","B","e","t","t","e","r","V","C","a","r","d","T","o","o","l","s","/","/","v","1",".","0","/","/","E","N">>
\* UID:urn:uuid:
S_UID == <<"U","I","D",":","u","r","n",":","u","u","i","d",":">>
\* END:VCARD
S_END == <<"E","N","D",":","V","C","A","R","D">>
\* Unnamed
S_Unnamed == <<"U","n","n","a","m","e","d">>
\* TYPE
S_TYPE == <<"T","Y","P","E">>
\* type
S_type == <<"t","y","p","e">>
\* internet
S_internet == <<"i","n","t","e","r","n","e","t">>
\* voice
S_voice == <<"v","o","i","c","e">>

\* _PREFIXES = {"mr", "mrs", "ms", "dr", "prof"}
_PREFIXES ==
    {<<"m","r">>,
     <<"m","r","s">>,
     <<"m","s">>,
     <<"d","r">>,
     <<"p","r","o","f">>}
\* _SUFFIXES = {"jr", "sr", "ii", "iii", "iv", "phd", "md"}
_SUFFIXES ==
    {<<"j","r">>,
     <<"s","r">>,
     <<"i","i">>,
     <<"i","i","i">>,
     <<"i","v">>,
     <<"p","h","d">>,
     <<"m","d">>}
\* _KNOWN_TEL_TYPES
_KNOWN_TEL_TYPES ==
    {<<"h","o","m","e">>,
     <<"w","o","r","k">>,
     <<"c","e","l","l">>,
     <<"v","o","i","c","e">>,
     <<"f","a","x">>,
     <<"p","a","g","e","r">>,
     <<"t","e","x","t">>,
     <<"t","e","x","t","p","h","o","n","e">>,
     <<"m","a","i","n">>,
     <<"i","p","h","o","n","e">>}
\* _KNOWN_EMAIL_TYPES
_KNOWN_EMAIL_TYPES ==
    {<<"h","o","m","e">>,
     <<"w","o","r","k">>,
     <<"i","n","t","e","r","n","e","t">>,
     <<"p","r","e","f">>,
     <<"x","-","m","o","b","i","l","e","m","e">>}

------------------------------------------------------------------------------
(* app/vcards.py: helpers *)

\* _escape without the replacement of the newline
_escape_RawNewline(s) ==
    Replace(Replace(Replace(Replace(s,
        "\\", <<"\\", "\\">>),
        ";", <<"\\", "\\", ";">>),
        ",", <<"\\", "\\", ",">>),
        "\r", <<>>)

\* _escape: the chain of str.replace calls, in the code's order.  The code's
\* replacement literals r"\\;", r"\\," and r"\\n" are raw strings: each holds
\* two backslashes followed by the character.
_escape(s) ==
    IF s = <<>> THEN <<>>
    ELSE Replace(Replace(Replace(Replace(Replace(s,
             "\\", <<"\\", "\\">>),
             ";", <<"\\", "\\", ";">>),
             ",", <<"\\", "\\", ",">>),
             "\n", <<"\\", "\\", "n">>),
             "\r", <<>>)

\* the five-field name dict
NameStruct(family, given, additional, prefix, suffix) ==
    [family |-> family, given |-> given, additional |-> additional,
     prefix |-> prefix, suffix |-> suffix]

\* norm() local to _split_name: re.sub(r"\.+$", "", t).lower()
norm(t) == Lower(StripTrailingDots(t))

\* _split_name with the suffix left among the core tokens when a prefix was found
_split_name_SuffixKept(fn) ==
    LET tokens == NonEmpty(ReSplitWs(Strip(fn)))
        n == Len(tokens)
    IN  IF n = 0 THEN NameStruct(<<>>, <<>>, <<>>, <<>>, <<>>)
        ELSE
        LET prefix == IF norm(tokens[1]) \in _PREFIXES THEN tokens[1] ELSE <<>>
            suffix == IF norm(tokens[n]) \in _SUFFIXES THEN tokens[n] ELSE <<>>
            core == IF prefix # <<>> THEN SubSeq(tokens, 2, n)
                    ELSE IF suffix # <<>> THEN SubSeq(tokens, 1, n - 1)
                    ELSE tokens
        IN  IF core = <<>> THEN NameStruct(<<>>, tokens[1], <<>>, prefix, suffix)
            ELSE IF Len(core) = 1 THEN NameStruct(<<>>, core[1], <<>>, prefix, suffix)
            ELSE NameStruct(Join(<<" ">>, Tail(core)), core[1], <<>>, prefix, suffix)

_split_name(fn) ==
    LET tokens == NonEmpty(ReSplitWs(Strip(fn)))
        n == Len(tokens)
    IN  IF n = 0 THEN NameStruct(<<>>, <<>>, <<>>, <<>>, <<>>)
        ELSE
        LET prefix == IF norm(tokens[1]) \in _PREFIXES THEN tokens[1] ELSE <<>>
            suffix == IF norm(tokens[n]) \in _SUFFIXES THEN tokens[n] ELSE <<>>
            core == IF prefix # <<>> /\ suffix # <<>> THEN SubSeq(tokens, 2, n - 1)
                    ELSE IF prefix # <<>> THEN SubSeq(tokens, 2, n)
                    ELSE IF suffix # <<>> THEN SubSeq(tokens, 1, n - 1)
                    ELSE tokens
        IN  IF core = <<>> THEN NameStruct(<<>>, tokens[1], <<>>, prefix, suffix)
            ELSE IF Len(core) = 1 THEN NameStruct(<<>>, core[1], <<>>, prefix, suffix)
            ELSE NameStruct(Join(<<" ">>, Tail(core)), core[1], <<>>, prefix, suffix)

\* [p.strip() for p in s.split(",") if p.strip()]
SplitCommaStrip(s) ==
    NonEmpty([k \in 1..Len(Split(s, ",")) |-> Strip(Split(s, ",")[k])])

_split_types(val) ==
    IF val.v = <<>> THEN <<>>
    ELSE LET parts == IF val.t = "str" THEN SplitCommaStrip(val.v)
                      ELSE Concat([k \in 1..Len(val.v) |-> SplitCommaStrip(val.v[k])])
         IN [k \in 1..Len(parts) |-> Lower(parts[k])]

\* _normalize_types without the rule that drops "voice" beside other types
_normalize_types_KeepVoice(kind, types) ==
    LET tset == ToSet(types)
        t1 == IF kind = "email" THEN tset \ {S_internet} ELSE tset
    IN Sorted(t1)

_normalize_types(kind, types) ==
    LET tset == ToSet(types)
        t1 == IF kind = "email" THEN tset \ {S_internet} ELSE tset
        t2 == IF kind = "tel" /\ Cardinality(t1) > 1 /\ S_voice \in t1
              THEN t1 \ {S_voice} ELSE t1
    IN Sorted(t2)

\* the loop over p.items(): the bare flags of vCard 2.1
RECURSIVE BareFlags(_, _, _)
BareFlags(kind, params, k) ==
    IF k > Len(params) THEN <<>>
    ELSE LET key == Lower(params[k].k)
             hit == /\ key # S_type
                    /\ \/ kind = "tel" /\ key \in _KNOWN_TEL_TYPES
                       \/ kind = "email" /\ key \in _KNOWN_EMAIL_TYPES
         IN (IF hit THEN <<key>> ELSE <<>>) \o BareFlags(kind, params, k + 1)

\* params is a dict: a list of [k |-> key, v |-> value] with distinct keys, in
\* insertion order; singletonparams is a list of str.
_extract_types_from_params(kind, params, singletonparams) ==
    LET hasTYPE == \E k \in 1..Len(params) : params[k].k = S_TYPE
        fromTYPE == IF hasTYPE
                    THEN _split_types(
                           params[CHOOSE k \in 1..Len(params) : params[k].k = S_TYPE].v)
                    ELSE <<>>
        fromSingle == IF singletonparams # <<>>
                      THEN _split_types(PyList(singletonparams)) ELSE <<>>
    IN _normalize_types(kind, fromTYPE \o BareFlags(kind, params, 1) \o fromSingle)

------------------------------------------------------------------------------
(* app/utils.py: the same helpers, as exported *)

escape_text(s) ==
    Replace(Replace(Replace(Replace(Replace(s,
        "\\", <<"\\", "\\">>),
        ";", <<"\\", "\\", ";">>),
        ",", <<"\\", "\\", ",">>),
        "\n", <<"\\", "\\", "n">>),
        "\r", <<>>)

\* the substitution with the period left out of the character class
StripTelPunctuation_KeepPeriod(s) ==
    SelectSeq(s, LAMBDA c : ~(IsSpace(c) \/ c \in {"(", ")", "-"}))

\* re.sub(r"[\s()\-.]", "", s)
StripTelPunctuation(s) ==
    SelectSeq(s, LAMBDA c : ~(IsSpace(c) \/ c \in {"(", ")", "-", "."}))

normalize_tel_uri(raw) ==
    LET tel == StripTelPunctuation(raw)
    IN IF StartsWith(tel, S_TEL_SCHEME) THEN tel ELSE S_TEL_SCHEME \o tel

------------------------------------------------------------------------------
(* app/vcards.py: parse_vcards, the body of the loop over the components *)

\* A raw component, as vobject exposes it:
\*   fn     None | Some(str)                       v.fn.value
\*   n      None | Some(NameStruct)                v.n.value
\*   emails list of [value, params, singletonparams]   v.email_list
\*   tels   list of [value, params, singletonparams]   v.tel_list
\*   org    None | Some(list of str)               v.org.value
\*   bday   None | Some(raw birthday)              v.bday.value
\*   notes  None | Some(list of str)               v.note_list
\* A raw birthday is text, a date or a datetime:
BdayText(s) == [t |-> "str", v |-> s]
BdayDate(d) == [t |-> "date", date |-> d]
BdayDateTime(d, tm) == [t |-> "datetime", date |-> d, time |-> tm]

\* lines 130-145: FN and the structured name
ParseName(v) ==
    IF ~IsNone(v.n) THEN Some(Get(v.n))
    ELSE IF ~IsNone(v.fn) /\ Get(v.fn) # <<>> THEN Some(_split_name(Get(v.fn)))
    ELSE None

\* lines 147-161: one EMAIL / TEL property
ParseTyped(kind, p) ==
    [value |-> p.value,
     types |-> _extract_types_from_params(kind, p.params, p.singletonparams)]

\* lines 163-176: ORG; `vals = org_obj.value or []`
ParseOrg(v) == IF IsNone(v.org) THEN None ELSE Some(Get(v.org))

\* lines 178-194: BDAY
ParseBday(v) ==
    IF IsNone(v.bday) THEN None
    ELSE LET val == Get(v.bday)
         IN CASE val.t = "datetime" -> Some(val.date)     \* val.date().isoformat()
              [] val.t = "date" -> Some(val.date)         \* val.isoformat()
              [] OTHER -> Some(val.v)                     \* str(val)

\* lines 196-203: NOTE
ParseNotes(v) == v.notes

\* lines 129-214: the contact dict built from component v
ParseComponentDict(v) ==
    [name |-> v.fn,
     n |-> ParseName(v),
     emails |-> [k \in 1..Len(v.emails) |-> ParseTyped("email", v.emails[k])],
     phones |-> [k \in 1..Len(v.tels) |-> ParseTyped("tel", v.tels[k])],
     org |-> ParseOrg(v),
     bday |-> ParseBday(v),
     notes |-> ParseNotes(v)]

------------------------------------------------------------------------------
(* app/vcards.py: contact_to_vcard40 *)

\* f";TYPE={','.join(types)}" if types else ""
TypeParam(types) == IF types = <<>> THEN <<>> ELSE S_TYPE_PARAM \o Join(<<",">>, types)

\* lines 244-247
EmailLine(e) ==
    S_EMAIL \o TypeParam(_normalize_types("email", e.types)) \o <<":">> \o _escape(e.value)

\* lines 250-258
TelLine(p) ==
    LET tel0 == StripTelPunctuation(p.value)
        tel == IF StartsWith(tel0, S_TEL_SCHEME) THEN tel0 ELSE S_TEL_SCHEME \o tel0
    IN S_TEL \o TypeParam(_normalize_types("tel", p.types)) \o S_VALUE_URI \o <<":">>
         \o _escape(tel)

\* NameLines with every field of the synthesized name left empty
NameLines_EmptyGiven(c) ==
    LET name == IF IsNone(c.name) \/ Get(c.name) = <<>> THEN S_Unnamed ELSE Get(c.name)
        n_struct == IF IsNone(c.n)
                    THEN NameStruct(<<>>, <<>>, <<>>, <<>>, <<>>) ELSE Get(c.n)
        n_fields == <<_escape(n_struct.family), _escape(n_struct.given),
                      _escape(n_struct.additional), _escape(n_struct.prefix),
                      _escape(n_struct.suffix)>>
    IN <<S_N \o Join(<<";">>, n_fields), S_FN \o _escape(name)>>

\* lines 224-241: the N and FN lines
NameLines(c) ==
    LET name == IF IsNone(c.name) \/ Get(c.name) = <<>> THEN S_Unnamed ELSE Get(c.name)
        n_struct == IF IsNone(c.n)
                    THEN NameStruct(<<>>, name, <<>>, <<>>, <<>>) ELSE Get(c.n)
        n_fields == <<_escape(n_struct.family), _escape(n_struct.given),
                      _escape(n_struct.additional), _escape(n_struct.prefix),
                      _escape(n_struct.suffix)>>
    IN <<S_N \o Join(<<";">>, n_fields), S_FN \o _escape(name)>>

\* lines 261-265
OrgLines(c) ==
    IF IsNone(c.org) \/ Get(c.org) = <<>> THEN <<>>
    ELSE <<S_ORG \o Join(<<";">>, [k \in 1..Len(Get(c.org)) |-> _escape(Get(c.org)[k])])>>

\* lines 268-269
BdayLines(c) ==
    IF IsNone(c.bday) \/ Get(c.bday) = <<>> THEN <<>>
    ELSE <<S_BDAY \o _escape(Get(c.bday))>>

\* lines 272-274
NoteLines(c) ==
    LET notes == IF IsNone(c.notes) THEN <<>> ELSE Get(c.notes)
    IN [k \in 1..Len(notes) |-> S_NOTE \o _escape(notes[k])]

\* Props with the NOTE block moved before ORG and BDAY
Props_NotesBeforeOrg(c, uuid) ==
    <<S_BEGIN, S_VERSION>>
    \o NameLines(c)
    \o [k \in 1..Len(c.emails) |-> EmailLine(c.emails[k])]
    \o [k \in 1..Len(c.phones) |-> TelLine(c.phones[k])]
    \o NoteLines(c)
    \o OrgLines(c)
    \o BdayLines(c)
    \o <<S_PRODID, S_UID \o uuid, S_END>>

\* Props with the TEL lines in the reverse of the contact's phone order
Props_PhonesReversed(c, uuid) ==
    <<S_BEGIN, S_VERSION>>
    \o NameLines(c)
    \o [k \in 1..Len(c.emails) |-> EmailLine(c.emails[k])]
    \o [k \in 1..Len(c.phones) |-> TelLine(c.phones[Len(c.phones) + 1 - k])]
    \o OrgLines(c)
    \o BdayLines(c)
    \o NoteLines(c)
    \o <<S_PRODID, S_UID \o uuid, S_END>>

\* the props list; uuid is the str(uuid4()) drawn for this contact
Props(c, uuid) ==
    <<S_BEGIN, S_VERSION>>
    \o NameLines(c)
    \o [k \in 1..Len(c.emails) |-> EmailLine(c.emails[k])]
    \o [k \in 1..Len(c.phones) |-> TelLine(c.phones[k])]
    \o OrgLines(c)
    \o BdayLines(c)
    \o NoteLines(c)
    \o <<S_PRODID, S_UID \o uuid, S_END>>

contact_to_vcard40(c, uuid) == Join(CRLF, Props(c, uuid)) \o CRLF

------------------------------------------------------------------------------
(* Inputs *)

\* the longest input text, in components, and the longest contact list handed
\* to contacts_to_vcards40 directly
MaxComponents == 2
MaxContacts == 2

\* One property occurrence as vobject exposes it: e.value, e.params (names
\* upper-cased by vobject, each value a list), e.singletonparams.
RawProp(value, params, singletonparams) ==
    [value |-> value, params |-> params, singletonparams |-> singletonparams]

RawComponent(fn, n, emails, tels, org, bday, notes) ==
    [boundary |-> "ok", fn |-> fn, n |-> n, emails |-> emails, tels |-> tels,
     org |-> org, bday |-> bday, notes |-> notes]

\* A component whose BEGIN/END boundary is corrupted: reading it makes
\* vobject.readComponents raise.
V_Corrupt ==
    [boundary |-> "corrupt", fn |-> None, n |-> None, emails |-> <<>>, tels |-> <<>>,
     org |-> None, bday |-> None, notes |-> None]

\* tests/test_vcards.py SAMPLE: N, FN, TEL;TYPE=CELL,HOME, EMAIL;TYPE=WORK, ORG:Acme;Sales
V_Sample ==
    RawComponent(
        Some(<<"J","o","h","n"," ","D","o","e">>),
        Some(NameStruct(<<"D","o","e">>, <<"J","o","h","n">>, <<>>, <<>>, <<>>)),
        <<RawProp(<<"j",".","d","o","e","@","x",".","i","o">>,
                <<[k |-> <<"T","Y","P","E">>, v |-> PyList(<<<<"W","O","R","K">>>>)]>>, <<>>)>>,
        <<RawProp(<<" ","+","1"," ","5","5","5"," ","0","1","0","0">>,
                <<[k |-> <<"T","Y","P","E">>, v |-> PyList(<<<<"C","E","L","L">>, <<"H","O","M","E">>>>)]>>, <<>>)>>,
        Some(<<<<"A","c","m","e">>, <<"S","a","l","e","s">>>>),
        None,
        None)

\* tests/test_more_vcards.py VCARD_MISSING_FN_N: neither FN nor N
V_MissingName ==
    RawComponent(
        None,
        None,
        <<RawProp(<<"s","+","t","@","x",".","u","k">>,
                <<>>, <<>>)>>,
        <<RawProp(<<" ","+","4","4"," ","(","0",")"," ","2","0","-","7","9">>,
                <<[k |-> <<"T","Y","P","E">>, v |-> PyList(<<<<"C","E","L","L">>>>)]>>, <<>>)>>,
        None,
        None,
        None)

\* a component with no property at all besides VERSION
V_Bare ==
    RawComponent(
        None,
        None,
        <<>>,
        <<>>,
        None,
        None,
        None)

\* vCard 2.1 bare flags (TEL;HOME, TEL;WORK;VOICE, EMAIL;INTERNET), as vobject's
\* singletonparams; the ORG of tests/test_more_vcards.py VCARD_21_CHARSET
V_V21 ==
    RawComponent(
        Some(<<"A","n","n"," ","L","e","e">>),
        Some(NameStruct(<<"L","e","e">>, <<"A","n","n">>, <<>>, <<>>, <<>>)),
        <<RawProp(<<"a","n","n","@","x",".","i","o">>,
                <<>>, <<<<"I","N","T","E","R","N","E","T">>>>),
        RawProp(<<"a","@","b",".","c">>,
                <<[k |-> <<"T","Y","P","E">>, v |-> PyList(<<<<"h","o","m","e">>, <<"I","N","T","E","R","N","E","T">>, <<"H","o","m","e">>>>)]>>, <<<<"P","R","E","F">>>>)>>,
        <<RawProp(<<" ","(","5","5","5",")"," ","0","1","0","-","2","0","0","0"," ">>,
                <<>>, <<<<"H","O","M","E">>>>),
        RawProp(<<"t","e","l",":","+","1","-","5","5","5",".","0","1","0",".","2","0","0","1">>,
                <<>>, <<<<"W","O","R","K">>, <<"V","O","I","C","E">>>>),
        RawProp(<<"5","5","5"," ","0","1","9","9">>,
                <<>>, <<<<"V","O","I","C","E">>>>)>>,
        Some(<<<<"U+00C5","c","m","e">>, <<"S","U+00E4","l","U+00EB","s">>>>),
        None,
        None)

\* FN only (the name is split), BDAY text, NOTE values with every special character
V_Notes ==
    RawComponent(
        Some(<<"D","r","."," ","J","a","n","e"," ","Q"," ","D","o","e"," ","J","r",".">>),
        None,
        <<>>,
        <<>>,
        None,
        Some(BdayText(<<"1","9","8","5","-","0","7","-","1","3">>)),
        Some(<<<<"a",";","b",",","c","\\","d">>, <<"l","1","\n","l","2","\r","\n","l","3">>, <<>>>>))

\* values that spell the envelope markers; an empty BDAY value; an empty FN
V_Markers ==
    RawComponent(
        Some(<<>>),
        None,
        <<>>,
        <<>>,
        Some(<<<<"B","E","G","I","N",":","V","C","A","R","D">>>>),
        Some(BdayText(<<>>)),
        Some(<<<<"B","E","G","I","N",":","V","C","A","R","D">>, <<"s","e","e"," ","E","N","D",":","V","C","A","R","D">>>>))

\* BDAY with a time, which vobject delivers as text; an empty ORG line, which
\* vobject delivers as a list holding one empty string; FN with a separator;
\* an N with a prefix
V_DateTime ==
    RawComponent(
        Some(<<"L","e","e",","," ","B","o">>),
        Some(NameStruct(<<"L","e","e">>, <<"B","o">>, <<>>, <<"M","r",";">>, <<>>)),
        <<RawProp(<<"x",";","y","@","z">>,
                <<>>, <<>>)>>,
        <<RawProp(<<>>,
                <<>>, <<>>)>>,
        Some(<<<<>>>>),
        Some(BdayText(<<"1","9","9","0","-","0","1","-","0","2","T","0","3",":","0","4",":","0","5">>)),
        None)

RawComponents ==
    {V_Sample, V_MissingName, V_Bare, V_V21, V_Notes, V_Markers, V_DateTime}

\* every sequence over S of length 0..n
SeqsUpTo(S, n) == UNION {[1..k -> S] : k \in 0..n}

Texts == SeqsUpTo(RawComponents \cup {V_Corrupt}, MaxComponents)

Contact(name, n, emails, phones, org, bday, notes) ==
    [name |-> name, n |-> n, emails |-> emails, phones |-> phones,
     org |-> org, bday |-> bday, notes |-> notes]

Entry(value, types) == [value |-> value, types |-> types]

\* Contacts a caller builds itself (app/types.py Contact): types not yet
\* normalised, values with line breaks, empty and absent fields.
D_Plain ==
    Contact(Some(<<"A","l"," ","B">>), None, <<>>, <<>>, None, None, None)

D_Typed ==
    Contact(Some(<<"C">>), Some(NameStruct(<<"C">>, <<>>, <<>>, <<>>, <<>>)),
            <<Entry(<<"c","@","d">>, <<<<"w","o","r","k">>, <<"i","n","t","e","r","n","e","t">>, <<"h","o","m","e">>>>),
              Entry(<<>>, <<<<"i","n","t","e","r","n","e","t">>>>)>>,
            <<Entry(<<"t","e","l",":","1","-","2">>, <<<<"v","o","i","c","e">>, <<"C","e","l","l">>>>),
              Entry(<<"(","3",")"," ","4",".","5">>, <<>>)>>,
            Some(<<<<"O",";","1">>, <<>>>>), Some(<<"2","0","0","1","-","0","2","-","0","3">>),
            Some(<<<<"n","\r","\n","m">>>>))

D_Empty ==
    Contact(Some(<<>>), None, <<>>, <<Entry(<<"\n","7","\r">>, <<<<"v","o","i","c","e">>>>)>>,
            Some(<<>>), Some(<<>>), Some(<<>>))

D_Breaks ==
    Contact(Some(<<"x","\n","y">>), Some(NameStruct(<<"\r">>, <<"\n">>, <<",">>, <<";">>, <<"\\">>)),
            <<Entry(<<"e","\r","\n","f">>, <<>>)>>, <<>>,
            Some(<<<<"\n">>>>), Some(<<"\r","\n">>), Some(<<<<>>, <<"\r">>>>))

\* a type token that holds a line break: types are joined into the TYPE
\* parameter as they are (lines 245-247, 256-258)
D_TypeBreak ==
    Contact(Some(<<"T">>), None,
            <<Entry(<<"e","@","f">>, <<<<"x","\r","\n","N","O","T","E">>>>)>>,
            <<Entry(<<"5">>, <<<<"c","e","l","l">>>>)>>,
            None, None, None)

DirectContacts == {D_Plain, D_Typed, D_Empty, D_Breaks, D_TypeBreak}

ContactLists == SeqsUpTo(DirectContacts, MaxContacts)

\* str(uuid4()): 36 characters, hexadecimal digits and hyphens
UUIDs ==
    {<<"1","b","4","e","2","8","b","a","-","2","f","a","1","-","4","1","d","2","-",
       "8","8","3","f","-","0","0","1","6","d","3","c","c","a","4","2","7">>,
     <<"f","8","1","d","4","f","a","e","-","7","d","e","c","-","4","1","d","0","-",
       "a","7","6","5","-","0","0","a","0","c","9","1","e","6","b","f","6">>}

------------------------------------------------------------------------------
(* The pipeline: main.upload, or a caller of the two library functions *)

NoCall == [fn |-> "none", kind |-> "none", s |-> <<>>, params |-> <<>>, single |-> <<>>]

Init ==
    /\ \/ /\ mode = "upload"
          /\ text \in Texts
          /\ pc = "parse"
          /\ result = None
       \/ /\ mode = "library"
          /\ text = <<>>
          /\ pc = "serialize"
          /\ result \in {Some(cs) : cs \in ContactLists}
    /\ i = 0
    /\ contacts = <<>>
    /\ j = 0
    /\ out = <<>>
    /\ response = None
    /\ call = NoCall
    /\ ret = <<>>
    /\ fpc = "idle"

\* the iteration with the contact put in front of the list
ParseComponent_Prepend ==
    /\ pc = "parse"
    /\ i < Len(text)
    /\ text[i + 1].boundary = "ok"
    /\ contacts' = <<ParseComponentDict(text[i + 1])>> \o contacts
    /\ i' = i + 1
    /\ UNCHANGED <<mode, text, pc, result, j, out, response, call, ret, fpc>>

\* parse_vcards: one iteration of `for v in vobject.readComponents(text)`
ParseComponent ==
    /\ pc = "parse"
    /\ i < Len(text)
    /\ text[i + 1].boundary = "ok"
    /\ contacts' = Append(contacts, ParseComponentDict(text[i + 1]))
    /\ i' = i + 1
    /\ UNCHANGED <<mode, text, pc, result, j, out, response, call, ret, fpc>>

\* the error swallowed, the contacts parsed so far returned
ParseError_ReturnParsed ==
    /\ pc = "parse"
    /\ i < Len(text)
    /\ text[i + 1].boundary = "corrupt"
    /\ result' = Some(contacts)
    /\ pc' = "serialize"
    /\ UNCHANGED <<mode, text, i, contacts, j, out, response, call, ret, fpc>>

\* parse_vcards: readComponents raises on a corrupted component boundary; nothing
\* catches it in parse_vcards or in upload, so the local list is lost and the
\* request ends in a server error.
ParseError ==
    /\ pc = "parse"
    /\ i < Len(text)
    /\ text[i + 1].boundary = "corrupt"
    /\ pc' = "failed"
    /\ contacts' = <<>>
    /\ UNCHANGED <<mode, text, i, result, j, out, response, call, ret, fpc>>

\* parse_vcards: `return contacts`
ParseReturn ==
    /\ pc = "parse"
    /\ i = Len(text)
    /\ result' = Some(contacts)
    /\ pc' = "serialize"
    /\ UNCHANGED <<mode, text, i, contacts, j, out, response, call, ret, fpc>>

\* contacts_to_vcards40: the join takes the next contact's component
SerializeContact ==
    /\ pc = "serialize"
    /\ j < Len(Get(result))
    /\ \E uuid \in UUIDs :
           out' = out \o contact_to_vcard40(Get(result)[j + 1], uuid)
    /\ j' = j + 1
    /\ UNCHANGED <<mode, text, pc, i, contacts, result, response, call, ret, fpc>>

\* contacts_to_vcards40 returns the joined text
SerializeReturn ==
    /\ pc = "serialize"
    /\ j = Len(Get(result))
    /\ pc' = IF mode = "upload" THEN "respond" ELSE "done"
    /\ UNCHANGED <<mode, text, i, contacts, result, j, out, response, call, ret, fpc>>

\* upload: the StreamingResponse over vcf_text
Respond ==
    /\ pc = "respond"
    /\ response' = Some(out)
    /\ pc' = "done"
    /\ UNCHANGED <<mode, text, i, contacts, result, j, out, call, ret, fpc>>

Next ==
    \/ ParseComponent
    \/ ParseError
    \/ ParseReturn
    \/ SerializeContact
    \/ SerializeReturn
    \/ Respond

Spec == Init /\ [][Next]_vars

------------------------------------------------------------------------------
(* Direct calls of the helper functions *)

\* the longest text handed to the escaping primitive, the longest phone body,
\* and the most tokens in a display name
MaxTextLen == 3
MaxTelLen == 2
MaxTokens == 3

\* the characters the escaping primitive treats specially, and a plain one
EscAlphabet == {"\\", ";", ",", "\n", "\r", "a"}

EscapeInputs == SeqsUpTo(EscAlphabet, MaxTextLen)

\* phone formatting: whitespace, parentheses, hyphen, period, and others
TelAlphabet == {" ", "\t", "U+00A0", "U+000B", "(", ")", "-", ".", "+", "1", ";"}

TelPrefixes ==
    {<<>>,
     <<"t","e","l",":">>,
     <<"t","-","e"," ","l",":">>,
     <<"T","E","L",":">>,
     <<"t","e","l",":","t","e","l",":">>,
     <<"t","e","l">>}

TelInputs == {p \o b : p \in TelPrefixes, b \in SeqsUpTo(TelAlphabet, MaxTelLen)}

TelTypeLists ==
    {<<>>,
     <<<<"v","o","i","c","e">>, <<"c","e","l","l">>>>,
     <<<<"v","o","i","c","e">>>>}

NameTokens ==
    {<<"D","r">>,
     <<"d","r",".">>,
     <<"M","R","S",".",".">>,
     <<"J","r">>,
     <<"P","h","D",".">>,
     <<"A","n","n">>,
     <<"L","e","e">>,
     <<".">>}

\* display names: tokens joined by one separator, with or without whitespace
\* around them
NameInputs ==
    {lead \o Join(sep, toks) \o lead :
        lead \in {<<>>, <<" ", "\t">>},
        sep \in {<<" ">>, <<"\t", " ">>, <<"\n">>, <<"U+00A0", "U+001C">>},
        toks \in SeqsUpTo(NameTokens, MaxTokens)}

\* no parameter
P_None ==
    <<>>

\* TYPE=CELL,HOME as vobject lists it
P_Type ==
    <<[k |-> <<"T","Y","P","E">>, v |-> PyList(<<<<"C","E","L","L">>, <<"H","O","M","E">>>>)]>>

\* a comma-joined TYPE value with blanks and an empty item
P_TypeStr ==
    <<[k |-> <<"T","Y","P","E">>, v |-> PyStr(<<" ","W","o","r","k",","," ","v","o","i","c","e"," ",",",",","I","N","T","E","R","N","E","T">>)]>>

\* the parameter name in lower case
P_TypeLower ==
    <<[k |-> <<"t","y","p","e">>, v |-> PyList(<<<<"h","o","m","e">>>>)]>>

\* the parameter name in mixed case
P_TypeMixed ==
    <<[k |-> <<"T","y","p","e">>, v |-> PyStr(<<"f","a","x",",","P","R","E","F">>)]>>

\* vCard 2.1 bare flags as keys, and keys outside the vocabulary
P_Flags ==
    <<[k |-> <<"H","O","M","E">>, v |-> PyList(<<>>)],
      [k |-> <<"X","-","F","O","O">>, v |-> PyList(<<<<"1">>>>)],
      [k |-> <<"W","o","r","k">>, v |-> PyList(<<>>)],
      [k |-> <<"C","H","A","R","S","E","T">>, v |-> PyList(<<<<"U","T","F","-","8">>>>)]>>

\* voice with a second type from a flag
P_Voice ==
    <<[k |-> <<"T","Y","P","E">>, v |-> PyList(<<<<"V","O","I","C","E">>>>)],
      [k |-> <<"p","r","e","f">>, v |-> PyList(<<>>)],
      [k |-> <<"C","E","L","L">>, v |-> PyList(<<>>)]>>

\* internet twice
P_Internet ==
    <<[k |-> <<"I","N","T","E","R","N","E","T">>, v |-> PyList(<<>>)],
      [k |-> <<"T","Y","P","E">>, v |-> PyList(<<<<"i","n","t","e","r","n","e","t">>, <<"H","o","m","e">>, <<"h","o","m","e">>>>)]>>

ParamMaps == {P_None, P_Type, P_TypeStr, P_TypeLower, P_TypeMixed, P_Flags, P_Voice, P_Internet}

SingletonLists ==
    {<<>>,
     <<<<"H","O","M","E">>>>,
     <<<<"V","O","I","C","E">>, <<"f","a","x">>>>,
     <<<<"X","-","m","o","b","i","l","e","m","e",","," ","P","R","E","F">>>>,
     <<<<"U+00A0","C","a","f","U+00C9","U+000B",","," ","H","O","M","E","U+0085">>>>}

FnCall(fn, kind, s, types, params, single) ==
    [fn |-> fn, kind |-> kind, s |-> s, types |-> types, params |-> params,
     single |-> single]

\* v.bday of a component: no BDAY, the text of tests/test_vcards.py, an empty
\* text, a text that is no date, a text with a time, a date, a datetime
BdayInputs ==
    {None,
     Some(BdayText(<<"1","9","8","5","-","0","7","-","1","3">>)),
     Some(BdayText(<<>>)),
     Some(BdayText(<<"s","o","o","n">>)),
     Some(BdayText(<<"1","9","9","0","-","0","1","-","0","2","T","0","3",":","0","4",":","0","5">>)),
     Some(BdayDate(<<"2","0","0","1","-","0","2","-","0","3">>)),
     Some(BdayDateTime(<<"1","9","9","0","-","0","1","-","0","2">>, <<"0","3",":","0","4",":","0","5">>))}

\* the functions called directly
Functions ==
    {"_escape", "escape_text", "contact_to_vcard40.TEL", "normalize_tel_uri",
     "_split_name", "_extract_types_from_params", "parse_vcards.BDAY"}

\* the calls of function f
Calls(f) ==
    CASE f \in {"_escape", "escape_text"} ->
             {FnCall(f, "none", s, <<>>, <<>>, <<>>) : s \in EscapeInputs}
      [] f = "contact_to_vcard40.TEL" ->
             {FnCall(f, "tel", s, ts, <<>>, <<>>) : s \in TelInputs, ts \in TelTypeLists}
      [] f = "normalize_tel_uri" ->
             {FnCall(f, "tel", s, <<>>, <<>>, <<>>) : s \in TelInputs}
      [] f = "_split_name" ->
             {FnCall(f, "none", s, <<>>, <<>>, <<>>) : s \in NameInputs}
      [] f = "_extract_types_from_params" ->
             {FnCall(f, k, <<>>, <<>>, p, sp) :
                 k \in {"email", "tel"}, p \in ParamMaps, sp \in SingletonLists}
      [] f = "parse_vcards.BDAY" ->
             {FnCall(f, "none", b, <<>>, <<>>, <<>>) : b \in BdayInputs}

InitFn ==
    /\ mode = "call"
    /\ text = <<>>
    /\ pc = "idle"
    /\ i = 0
    /\ contacts = <<>>
    /\ result = None
    /\ j = 0
    /\ out = <<>>
    /\ response = None
    /\ \E f \in Functions : call \in Calls(f)
    /\ ret = <<>>
    /\ fpc = "call"

Return(v) ==
    /\ ret' = v
    /\ fpc' = "returned"
    /\ UNCHANGED <<mode, text, pc, i, contacts, result, j, out, response, call>>

Call_escape ==
    /\ fpc = "call" /\ call.fn = "_escape"
    /\ Return(_escape(call.s))

Call_escape_text ==
    /\ fpc = "call" /\ call.fn = "escape_text"
    /\ Return(escape_text(call.s))

Call_split_name ==
    /\ fpc = "call" /\ call.fn = "_split_name"
    /\ Return(_split_name(call.s))

Call_extract_types_from_params ==
    /\ fpc = "call" /\ call.fn = "_extract_types_from_params"
    /\ Return(_extract_types_from_params(call.kind, call.params, call.single))

\* the TEL branch of contact_to_vcard40 on one phone entry
Call_TelLine ==
    /\ fpc = "call" /\ call.fn = "contact_to_vcard40.TEL"
    /\ Return(TelLine(Entry(call.s, call.types)))

Call_normalize_tel_uri ==
    /\ fpc = "call" /\ call.fn = "normalize_tel_uri"
    /\ Return(normalize_tel_uri(call.s))

\* the BDAY block of parse_vcards on a component whose v.bday is call.s
Call_ParseBday ==
    /\ fpc = "call" /\ call.fn = "parse_vcards.BDAY"
    /\ Return(ParseBday([bday |-> call.s]))

NextFn ==
    \/ Call_escape
    \/ Call_escape_text
    \/ Call_split_name
    \/ Call_extract_types_from_params
    \/ Call_TelLine
    \/ Call_normalize_tel_uri
    \/ Call_ParseBday

SpecFn == InitFn /\ [][NextFn]_vars

------------------------------------------------------------------------------
(* Reading the emitted text back: what a consumer of the output sees *)

\* 1, 2, ..., n
UpTo(n) == [k \in 1..n |-> k]

\* where the CRLF pairs of s start, in increasing order
CRLFAt(s) ==
    SelectSeq(UpTo(Len(s)), LAMBDA k : s[k] = "\r" /\ k < Len(s) /\ s[k + 1] = "\n")

\* s.split("\r\n"): the last part is what follows the last CRLF
SplitCRLF(s) ==
    LET at == CRLFAt(s)
        n == Len(at)
    IN [m \in 1..(n + 1) |->
           SubSeq(s, IF m = 1 THEN 1 ELSE at[m - 1] + 2,
                     IF m = n + 1 THEN Len(s) ELSE at[m] - 1)]

\* the CRLF-terminated lines of s (what follows the last CRLF is not one)
Lines(s) == SubSeq(SplitCRLF(s), 1, Len(SplitCRLF(s)) - 1)

\* the fixed property order of a component
FixedOrder ==
    <<"BEGIN", "VERSION", "N", "FN", "EMAIL", "TEL", "ORG", "BDAY", "NOTE",
      "PRODID", "UID", "END">>

\* the place of a property in the fixed order
Rank(nm) == CHOOSE k \in 1..Len(FixedOrder) : FixedOrder[k] = nm

\* the property a line carries, "" for anything else
PropertyOf(line) ==
    CASE line = S_BEGIN -> "BEGIN"
      [] line = S_VERSION -> "VERSION"
      [] StartsWith(line, S_N) -> "N"
      [] StartsWith(line, S_FN) -> "FN"
      [] StartsWith(line, S_EMAIL \o <<":">>) \/ StartsWith(line, S_EMAIL \o <<";">>) -> "EMAIL"
      [] StartsWith(line, S_TEL \o <<":">>) \/ StartsWith(line, S_TEL \o <<";">>) -> "TEL"
      [] StartsWith(line, S_ORG) -> "ORG"
      [] StartsWith(line, S_BDAY) -> "BDAY"
      [] StartsWith(line, S_NOTE) -> "NOTE"
      [] line = S_PRODID -> "PRODID"
      [] StartsWith(line, S_UID) -> "UID"
      [] line = S_END -> "END"
      [] OTHER -> ""

\* the rank of a property line in the fixed order, 0 for anything else
Kind(line) == IF PropertyOf(line) = "" THEN 0 ELSE Rank(PropertyOf(line))

\* the index of the first occurrence of character c in s, 0 if none
IndexOf(s, c) ==
    IF \E k \in 1..Len(s) : s[k] = c
    THEN CHOOSE k \in 1..Len(s) : s[k] = c /\ \A x \in 1..(k - 1) : s[x] # c
    ELSE 0

\* the components of the output: the lines from each BEGIN:VCARD line up to
\* the line before the next one
ComponentsOf(lines) ==
    LET at == SelectSeq(UpTo(Len(lines)), LAMBDA k : lines[k] = S_BEGIN)
        n == Len(at)
    IN [m \in 1..n |->
           SubSeq(lines, at[m], IF m = n THEN Len(lines) ELSE at[m + 1] - 1)]

Components(s) == ComponentsOf(Lines(s))

\* the contacts serialised so far
Serialised == IF IsNone(result) THEN <<>> ELSE SubSeq(Get(result), 1, j)

\* the value of a property line: what follows its first colon
ValueOf(line) == SubSeq(line, IndexOf(line, ":") + 1, Len(line))

------------------------------------------------------------------------------
(* C1 *)

NonDecreasing(ranks) == \A k \in 1..(Len(ranks) - 1) : ranks[k] <= ranks[k + 1]

\* how many of the ranks are kd
CountRank(ranks, kd) == Len(SelectSeq(ranks, LAMBDA r : r = kd))

\* the values of the lines whose rank is kd, in order
ValuesOfRank(lines, ranks, kd) ==
    LET at == SelectSeq(UpTo(Len(ranks)), LAMBDA k : ranks[k] = kd)
    IN [m \in 1..Len(at) |-> ValueOf(lines[at[m]])]

\* ranks of a component's lines against contact c: the fixed order, the counts,
\* and the values of the repeated properties in the contact's order
RanksInFixedOrder(lines, ranks, c) ==
    /\ \A k \in 1..Len(ranks) : ranks[k] # 0
    /\ NonDecreasing(ranks)
    /\ \A kd \in {Rank("BEGIN"), Rank("VERSION"), Rank("N"), Rank("FN"), Rank("PRODID"), Rank("UID"), Rank("END")} :
           CountRank(ranks, kd) = 1
    /\ CountRank(ranks, Rank("ORG")) <= 1
    /\ CountRank(ranks, Rank("BDAY")) <= 1
    /\ ValuesOfRank(lines, ranks, Rank("EMAIL"))
           = [k \in 1..Len(c.emails) |-> _escape(c.emails[k].value)]
    /\ ValuesOfRank(lines, ranks, Rank("TEL"))
           = [k \in 1..Len(c.phones) |-> _escape(normalize_tel_uri(c.phones[k].value))]
    /\ ValuesOfRank(lines, ranks, Rank("NOTE"))
           = IF IsNone(c.notes) THEN <<>>
             ELSE [k \in 1..Len(Get(c.notes)) |-> _escape(Get(c.notes)[k])]

InFixedOrder(lines, c) ==
    RanksInFixedOrder(lines, [k \in 1..Len(lines) |-> Kind(lines[k])], c)

\* every component of the text s is in the fixed order for its contact
AllInFixedOrder(comps, cs) ==
    /\ Len(comps) = Len(cs)
    /\ \A k \in 1..Len(comps) : InFixedOrder(comps[k], cs[k])

\* no type token of contact c holds a carriage return or a newline
HasLineBreak(t) == \E k \in 1..Len(t) : t[k] \in {"\r", "\n"}

CleanTypes(c) ==
    /\ \A e \in 1..Len(c.emails) :
           \A t \in 1..Len(c.emails[e].types) : ~HasLineBreak(c.emails[e].types[t])
    /\ \A p \in 1..Len(c.phones) :
           \A t \in 1..Len(c.phones[p].types) : ~HasLineBreak(c.phones[p].types[t])

AllCleanTypes(cs) == \A k \in 1..Len(cs) : CleanTypes(cs[k])

\* C1 as stated, for every list of contacts: one component per contact, in
\* input order, and the lines of each component in the fixed order.
C1_Original ==
    /\ AllInFixedOrder(Components(out), Serialised)
    /\ out # <<>> => StartsWith(out, S_BEGIN \o CRLF) /\ EndsWith(out, S_END \o CRLF)
    /\ pc = "done" => j = Len(Get(result))

\* C1: for every list of contacts whose type tokens hold no carriage return
\* or newline, contacts_to_vcards40 emits one component per contact, in input
\* order, and the lines of each component are in the fixed order BEGIN:VCARD,
\* VERSION:4.0, N, FN, the EMAILs in the contact's order, the TELs in the
\* contact's phone order, ORG, BDAY, the NOTEs in the contact's order,
\* PRODID, UID, END:VCARD: no line of a later kind precedes one of an earlier
\* kind.  (A type token is written into the TYPE parameter as it is, so one
\* that holds a line break splits its line.)
C1_FixedPropertyOrder ==
    /\ AllCleanTypes(Serialised) =>
           /\ AllInFixedOrder(Components(out), Serialised)
           /\ out # <<>> =>
                  StartsWith(out, S_BEGIN \o CRLF) /\ EndsWith(out, S_END \o CRLF)
    /\ pc = "done" => j = Len(Get(result))

\* a contact with two emails, three phones and several notes has been serialised
\* after another one
C1_Witness ==
    /\ j = 2
    /\ Len(Serialised[2].emails) = 2
    /\ Len(Serialised[2].phones) = 3
    /\ Serialised[1] # Serialised[2]
    /\ ~IsNone(Serialised[1].notes)
    /\ pc = "done"

------------------------------------------------------------------------------
(* C2 *)

\* the escape of one character, as the escaping rule states it
EscapedChar(c) ==
    CASE c = "\\" -> <<"\\", "\\">>
      [] c = ";" -> <<"\\", ";">>
      [] c = "," -> <<"\\", ",">>
      [] c = "\n" -> <<"\\", "n">>
      [] c = "\r" -> <<>>
      [] OTHER -> <<c>>

EscapedText(s) == Concat([k \in 1..Len(s) |-> EscapedChar(s[k])])

\* C2: the escaping primitive (_escape, escape_text) produces exactly one
\* backslash-escape per special character: a backslash becomes two backslashes,
\* ';' becomes backslash ';', ',' becomes backslash ',', a newline becomes
\* backslash 'n', a carriage return is removed, anything else is unchanged.
C2_OneEscapePerSpecial ==
    (fpc = "returned" /\ call.fn \in {"_escape", "escape_text"})
        => ret = EscapedText(call.s)

------------------------------------------------------------------------------
(* C3 *)

\* a raw component with neither an FN nor an N property
NoName(v) == IsNone(v.fn) /\ IsNone(v.n)

HasLine(lines, l) == \E k \in 1..Len(lines) : lines[k] = l

\* the k-th emitted component carries line l
ComponentHasLine(k, l) ==
    k <= Len(Components(out)) /\ HasLine(Components(out)[k], l)

\* FN:Unnamed
S_FN_Unnamed == S_FN \o S_Unnamed
\* N:;;;;
S_N_AllEmpty == S_N \o <<";", ";", ";", ";">>
\* N:;Unnamed;;;
S_N_GivenUnnamed == S_N \o <<";">> \o S_Unnamed \o <<";", ";", ";">>

\* C3 as stated: every input component with neither FN nor N is serialised
\* with the line FN:Unnamed and the line N:;;;; (five empty name fields).
C3_Original ==
    mode = "upload" =>
        \A k \in 1..j : NoName(text[k]) =>
            /\ ComponentHasLine(k, S_FN_Unnamed)
            /\ ComponentHasLine(k, S_N_AllEmpty)

\* C3 as amended: every input component with neither FN nor N is serialised
\* with the line FN:Unnamed and the line N:;Unnamed;;; (the fallback name
\* is the given name, the other four fields are empty).
C3_MissingNameFallback ==
    mode = "upload" =>
        \A k \in 1..j : NoName(text[k]) =>
            /\ ComponentHasLine(k, S_FN_Unnamed)
            /\ ComponentHasLine(k, S_N_GivenUnnamed)
            /\ ~ComponentHasLine(k, S_N_AllEmpty)

\* a component with no FN and no N has been parsed and serialised, after a
\* named one
C3_Witness ==
    /\ mode = "upload"
    /\ j = 2
    /\ ~NoName(text[1])
    /\ NoName(text[2])
    /\ text[2].tels # <<>>

------------------------------------------------------------------------------
(* C4 *)

\* what follows the property name of an EMAIL or TEL line
AfterName(line) ==
    IF PropertyOf(line) = "EMAIL" THEN SubSeq(line, Len(S_EMAIL) + 1, Len(line))
    ELSE SubSeq(line, Len(S_TEL) + 1, Len(line))

HasTypeParam(line) == StartsWith(AfterName(line), S_TYPE_PARAM)

\* the text of the TYPE parameter: up to the next ';' or ':'
TypeText(line) ==
    LET rest == SubSeq(AfterName(line), Len(S_TYPE_PARAM) + 1, Len(AfterName(line)))
        ends == SelectSeq(UpTo(Len(rest)), LAMBDA k : rest[k] \in {";", ":"})
    IN SubSeq(rest, 1, ends[1] - 1)

\* the emitted TYPE list of a line that has one
TypeList(line) == Split(TypeText(line), ",")

IsLowerCase(s) == \A k \in 1..Len(s) : ~IsUpper(s[k])

StrictlySorted(xs) == \A k \in 1..(Len(xs) - 1) : StrLess(xs[k], xs[k + 1])

CanonicalTypeList(line) ==
    LET types == TypeList(line)
    IN /\ \A k \in 1..Len(types) : types[k] # <<>> /\ IsLowerCase(types[k])
       /\ StrictlySorted(types)
       /\ PropertyOf(line) = "EMAIL" => \A k \in 1..Len(types) : types[k] # S_internet
       /\ PropertyOf(line) = "TEL" =>
              ((\E k \in 1..Len(types) : types[k] = S_voice) => Len(types) = 1)

\* the parsed entries behind the EMAIL (TEL) lines emitted so far, in order
SerialisedEntries(prop) ==
    Concat([k \in 1..Len(Serialised) |->
               IF prop = "EMAIL" THEN Serialised[k].emails ELSE Serialised[k].phones])

LinesOf(prop) == SelectSeq(Lines(out), LAMBDA l : PropertyOf(l) = prop)

\* lines against the entries they were emitted for: a canonical TYPE list, or
\* no TYPE parameter exactly when the entry's type list is empty
TypesEmittedFor(lines, entries) ==
    /\ Len(lines) = Len(entries)
    /\ \A k \in 1..Len(lines) :
           /\ HasTypeParam(lines[k]) => CanonicalTypeList(lines[k])
           /\ entries[k].types = <<>> <=> ~HasTypeParam(lines[k])

\* C4: in the output of parse_vcards followed by contacts_to_vcards40, every
\* emitted TYPE list is lowercase, free of duplicates and sorted; no EMAIL
\* list holds "internet"; no TEL list holds "voice" beside another type; and
\* an entry whose type list is empty is emitted with no TYPE parameter.
C4_CanonicalTypes ==
    mode = "upload" =>
        /\ TypesEmittedFor(LinesOf("EMAIL"), SerialisedEntries("EMAIL"))
        /\ TypesEmittedFor(LinesOf("TEL"), SerialisedEntries("TEL"))

\* the vCard 2.1 component (WORK and VOICE flags on one TEL, INTERNET on an
\* EMAIL, duplicate and mixed-case TYPE values) and the two-type sample have
\* been parsed and serialised
C4_Witness ==
    /\ mode = "upload"
    /\ pc = "done"
    /\ text = <<V_V21, V_Sample>>
    /\ \E l \in ToSet(LinesOf("TEL")) : HasTypeParam(l) /\ Len(TypeList(l)) = 2
    /\ \E l \in ToSet(LinesOf("EMAIL")) : ~HasTypeParam(l)

------------------------------------------------------------------------------
(* C5 *)

\* where pat occurs in s, in increasing order
OccurrencesOf(s, pat) ==
    SelectSeq(UpTo(Len(s)), LAMBDA k :
        k + Len(pat) - 1 <= Len(s) /\ SubSeq(s, k, k + Len(pat) - 1) = pat)

\* s.count(pat), for a pattern that cannot overlap itself
CountOf(s, pat) == Len(OccurrencesOf(s, pat))

\* ;VALUE=uri:
S_VALUE_URI_COLON == S_VALUE_URI \o <<":">>

\* what follows the first ";VALUE=uri:" of a line
UriValue(line) ==
    SubSeq(line, OccurrencesOf(line, S_VALUE_URI_COLON)[1] + Len(S_VALUE_URI_COLON),
           Len(line))

\* phone formatting: whitespace, parentheses, hyphen, period
IsFormatting(c) == IsSpace(c) \/ c \in {"(", ")", "-", "."}

Unformatted(s) == SelectSeq(s, LAMBDA c : ~IsFormatting(c))

\* a normalized tel: URI for the raw phone value s
IsTelUriFor(value, s) ==
    /\ StartsWith(value, S_TEL_SCHEME)
    /\ \A k \in 1..Len(value) : ~IsFormatting(value[k])
    /\ StartsWith(s, S_TEL_SCHEME) =>
           CountOf(value, S_TEL_SCHEME) = CountOf(Unformatted(s), S_TEL_SCHEME)
    /\ ~StartsWith(Unformatted(s), S_TEL_SCHEME) =>
           CountOf(value, S_TEL_SCHEME) = CountOf(Unformatted(s), S_TEL_SCHEME) + 1

\* C5: whatever the formatting of a phone value, its TEL line contains
\* ";VALUE=uri:" followed by a value that starts with "tel:" and holds no
\* whitespace, parenthesis, hyphen or period; a value that already starts with
\* "tel:" is not prefixed a second time.
C5_TelUri ==
    /\ (fpc = "returned" /\ call.fn = "contact_to_vcard40.TEL") =>
           /\ StartsWith(ret, S_TEL)
           /\ CountOf(ret, S_VALUE_URI_COLON) >= 1
           /\ IsTelUriFor(UriValue(ret), call.s)
    /\ (fpc = "returned" /\ call.fn = "normalize_tel_uri") =>
           IsTelUriFor(ret, call.s)

\* the TEL line of a typed phone whose value starts with "tel:" and holds
\* formatting characters
C5_Witness ==
    /\ fpc = "returned"
    /\ call.fn = "contact_to_vcard40.TEL"
    /\ call.types # <<>>
    /\ StartsWith(call.s, S_TEL_SCHEME)
    /\ \E k \in 1..Len(call.s) : call.s[k] = "("
    /\ \E k \in 1..Len(call.s) : call.s[k] = " "

------------------------------------------------------------------------------
(* C6 *)

\* every component of the uploaded text is valid
AllValid == \A k \in 1..Len(text) : text[k].boundary = "ok"

\* parse_vcards has returned one contact per component, in input order
ParsedInInputOrder ==
    /\ Len(Get(result)) = Len(text)
    /\ \A k \in 1..Len(text) : Get(result)[k] = ParseComponentDict(text[k])

\* how many of the lines are exactly l
CountLines(lines, l) == Len(SelectSeq(lines, LAMBDA x : x = l))

VersionInEvery(comps) == \A k \in 1..Len(comps) : HasLine(comps[k], S_VERSION)

\* the envelope read from the property lines: n BEGIN:VCARD lines, n END:VCARD
\* lines, VERSION:4.0 in each component
EnvelopeOfLines(lines, n) ==
    /\ CountLines(lines, S_BEGIN) = n
    /\ CountLines(lines, S_END) = n
    /\ Len(ComponentsOf(lines)) = n
    /\ VersionInEvery(ComponentsOf(lines))

\* the envelope read from the text: n occurrences of each marker
EnvelopeOfText(s, n) ==
    /\ CountOf(s, S_BEGIN) = n
    /\ CountOf(s, S_END) = n
    /\ VersionInEvery(Components(s))

\* the upload of a non-empty valid text has been serialised completely
RoundTripDone ==
    mode = "upload" /\ Len(text) >= 1 /\ AllValid /\ pc \in {"respond", "done"}

\* C6 as stated: the output of the round trip contains exactly N occurrences
\* of BEGIN:VCARD and of END:VCARD, whatever the property values are.
C6_Original ==
    /\ (mode = "upload" /\ ~IsNone(result)) => ParsedInInputOrder
    /\ RoundTripDone => EnvelopeOfText(out, Len(text))

\* C6: for a non-empty input of N valid components parse_vcards returns
\* exactly N contacts in input order, and their serialisation has exactly N
\* BEGIN:VCARD property lines and exactly N END:VCARD property lines, with a
\* VERSION:4.0 line in every component, whatever the property values are (a
\* value may itself contain the text BEGIN:VCARD or END:VCARD).
C6_RoundTripEnvelope ==
    /\ (mode = "upload" /\ ~IsNone(result)) => ParsedInInputOrder
    /\ RoundTripDone => EnvelopeOfLines(Lines(out), Len(text))

\* two different components have made the round trip, one of them with the
\* marker texts inside its ORG and NOTE values
C6_Witness ==
    /\ RoundTripDone
    /\ Len(text) = 2
    /\ text[1] # text[2]
    /\ text[2] = V_Markers
    /\ response = Some(out)

------------------------------------------------------------------------------
(* C7 *)

\* the fixed vocabulary of a kind
Vocabulary(kind) == IF kind = "tel" THEN _KNOWN_TEL_TYPES ELSE _KNOWN_EMAIL_TYPES

\* the comma-split, trimmed, lowercased values of every parameter whose name
\* is TYPE in any case
TypeValues(params) ==
    UNION {ToSet(_split_types(params[k].v)) :
              k \in {x \in 1..Len(params) : Lower(params[x].k) = S_type}}

\* the other parameter names that, in lower case, belong to the vocabulary
FlagKeys(kind, params) ==
    {Lower(params[k].k) :
        k \in {x \in 1..Len(params) :
                  Lower(params[x].k) # S_type /\ Lower(params[x].k) \in Vocabulary(kind)}}

\* the flat extra values
ExtraValues(single) == ToSet(_split_types(PyList(single)))

\* the type normalization of a set of types
NormalizedTypes(kind, tset) ==
    Sorted(IF kind = "email" THEN tset \ {S_internet}
           ELSE IF Cardinality(tset) > 1 THEN tset \ {S_voice}
           ELSE tset)

ExtractedTypes(kind, params, single) ==
    NormalizedTypes(kind,
        TypeValues(params) \cup FlagKeys(kind, params) \cup ExtraValues(single))

\* C7: for kind in {email, tel}, every parameter map and extra flat values,
\* _extract_types_from_params returns the type normalization of the union of
\* the comma-split, trimmed, lowercased TYPE values, the other parameter keys
\* that belong (case-insensitively) to the vocabulary of the kind, and the
\* extra values; parameter names, TYPE included, are matched
\* case-insensitively.
C7_TypeExtraction ==
    (fpc = "returned" /\ call.fn = "_extract_types_from_params") =>
        ret = ExtractedTypes(call.kind, call.params, call.single)

\* the same statement for the calls whose TYPE parameter is spelled in upper
\* case, as vobject delivers it
C7_UpperCaseTypeOnly ==
    (/\ fpc = "returned" /\ call.fn = "_extract_types_from_params"
     /\ \A k \in 1..Len(call.params) :
            Lower(call.params[k].k) = S_type => call.params[k].k = S_TYPE) =>
        ret = ExtractedTypes(call.kind, call.params, call.single)

------------------------------------------------------------------------------
(* C8 *)

\* the uploaded text has a corrupted component boundary
HasCorruptBoundary == \E k \in 1..Len(text) : text[k].boundary = "corrupt"

\* the caller holds no contact list and no vCard text has been produced
NothingEmitted == IsNone(result) /\ out = <<>> /\ IsNone(response)

\* C8: when parsing hits a corrupted component boundary at any component,
\* parse_vcards fails as a whole: the caller never receives a contact list,
\* not even the contacts parsed before the corrupted component, and the upload
\* emits no vCard output for that input.
C8_NoPartialList ==
    /\ pc = "failed" => NothingEmitted /\ contacts = <<>>
    /\ (mode = "upload" /\ HasCorruptBoundary) =>
           /\ NothingEmitted
           /\ pc \in {"parse", "failed"}
    /\ (mode = "upload" /\ pc = "parse" /\ i < Len(text)) => IsNone(result)

\* the parse failed at the second component, after the first was parsed
C8_Witness ==
    /\ pc = "failed"
    /\ i = 1
    /\ text[1].boundary = "ok"
    /\ text[2].boundary = "corrupt"

------------------------------------------------------------------------------
(* C9 *)

\* every carriage return of s is followed by a newline and every newline
\* follows a carriage return: s has no line break other than CRLF
OnlyCRLFBreaks(s) ==
    /\ \A k \in 1..Len(s) : s[k] = "\r" => (k < Len(s) /\ s[k + 1] = "\n")
    /\ \A k \in 1..Len(s) : s[k] = "\n" => (k > 1 /\ s[k - 1] = "\r")

\* s is a sequence of CRLF-terminated lines
CRLFTerminated(s) == s = <<>> \/ EndsWith(s, CRLF)

NoteCount(c) == IF IsNone(c.notes) THEN 0 ELSE Len(Get(c.notes))

OrgNonEmpty(c) == ~IsNone(c.org) /\ Get(c.org) # <<>>

BdayPresent(c) == ~IsNone(c.bday)

BdayNonEmpty(c) == ~IsNone(c.bday) /\ Get(c.bday) # <<>>

\* the lines of a contact beside the fixed ones
VariableLines(c, withBday) ==
    Len(c.emails) + Len(c.phones) + NoteCount(c)
    + (IF OrgNonEmpty(c) THEN 1 ELSE 0) + (IF withBday THEN 1 ELSE 0)

\* the lines C9 states for a contact
LinesAsStated(c) == 6 + VariableLines(c, BdayPresent(c))

\* BEGIN, VERSION, N, FN, PRODID, UID and END, and a BDAY only when non-empty
LinesEmitted(c) == Len(<<S_BEGIN, S_VERSION, S_N, S_FN, S_PRODID, S_UID, S_END>>)
                   + VariableLines(c, BdayNonEmpty(c))

\* the k-th component has as many lines as counts[k]
ComponentLengths(comps, counts) ==
    /\ Len(comps) = Len(counts)
    /\ \A k \in 1..Len(comps) : Len(comps[k]) = counts[k]

\* all the lines of s belong to its components: s starts with a BEGIN:VCARD line
StartsWithBegin(lines) == lines = <<>> \/ lines[1] = S_BEGIN

\* C9 as stated: a contact with e emails, p phones and k notes produces
\* exactly 6 + e + p + k CRLF-terminated lines plus one for a non-empty ORG
\* and one for a present BDAY.
C9_Original ==
    /\ CRLFTerminated(out)
    /\ OnlyCRLFBreaks(out)
    /\ StartsWithBegin(Lines(out))
    /\ ComponentLengths(Components(out),
                        [k \in 1..Len(Serialised) |-> LinesAsStated(Serialised[k])])

\* the statement with the two counts put right, for every type token
C9_AnyTypeToken ==
    /\ CRLFTerminated(out)
    /\ OnlyCRLFBreaks(out)
    /\ StartsWithBegin(Lines(out))
    /\ ComponentLengths(Components(out),
                        [k \in 1..Len(Serialised) |-> LinesEmitted(Serialised[k])])

\* C9: for every list of contacts the output of contacts_to_vcards40 ends
\* with CRLF, the last line of the last component included; for every field
\* value, also one with carriage returns or newlines, of contacts whose type
\* tokens hold no carriage return or newline, the output is a sequence of
\* lines each terminated by CRLF and no value introduces a raw line break: a
\* contact with e emails, p phones and k notes produces exactly 7 + e + p + k
\* lines plus one for a non-empty ORG and one for a non-empty BDAY.  (A type
\* token is written unescaped, so a line break in it appears raw.)
C9_CRLFTerminatedLines ==
    /\ CRLFTerminated(out)
    /\ AllCleanTypes(Serialised) =>
           /\ OnlyCRLFBreaks(out)
           /\ StartsWithBegin(Lines(out))
           /\ ComponentLengths(Components(out),
                  [k \in 1..Len(Serialised) |-> LinesEmitted(Serialised[k])])

\* a contact whose values hold line breaks and a contact with an empty BDAY
\* have been serialised
C9_Witness ==
    /\ mode = "library"
    /\ pc = "done"
    /\ Serialised = <<D_Breaks, D_Empty>>

------------------------------------------------------------------------------
(* C10 *)

\* where the maximal runs of non-whitespace characters of s start and end
TokenStarts(s) ==
    SelectSeq(UpTo(Len(s)), LAMBDA k : ~IsSpace(s[k]) /\ (k = 1 \/ IsSpace(s[k - 1])))

TokenEnds(s) ==
    SelectSeq(UpTo(Len(s)), LAMBDA k : ~IsSpace(s[k]) /\ (k = Len(s) \/ IsSpace(s[k + 1])))

\* s tokenized on whitespace
WhitespaceTokens(s) ==
    [m \in 1..Len(TokenStarts(s)) |-> SubSeq(s, TokenStarts(s)[m], TokenEnds(s)[m])]

\* a token stripped of its trailing dots and lowercased
WithoutTrailingDots(t) ==
    SubSeq(t, 1, Len(SelectSeq(UpTo(Len(t)), LAMBDA k : \E x \in k..Len(t) : t[x] # ".")))

Normalized(t) ==
    [k \in 1..Len(WithoutTrailingDots(t)) |-> LowerChar(WithoutTrailingDots(t)[k])]

\* {mr, mrs, ms, dr, prof}
StatedPrefixes ==
    {<<"m","r">>, <<"m","r","s">>, <<"m","s">>, <<"d","r">>, <<"p","r","o","f">>}

\* {jr, sr, ii, iii, iv, phd, md}
StatedSuffixes ==
    {<<"j","r">>, <<"s","r">>, <<"i","i">>, <<"i","i","i">>, <<"i","v">>,
     <<"p","h","d">>, <<"m","d">>}

\* tokens joined by single spaces
JoinedBySpaces(toks) ==
    IF toks = <<>> THEN <<>>
    ELSE LET pieces == [k \in 1..Len(toks) |->
                           IF k = 1 THEN toks[k] ELSE <<" ">> \o toks[k]]
         IN Concat(pieces)

\* the heuristic as C10 states it, on the tokens of the display name
SplitAsStated(toks) ==
    LET hasPrefix == toks # <<>> /\ Normalized(toks[1]) \in StatedPrefixes
        rest == IF hasPrefix THEN Tail(toks) ELSE toks
        hasSuffix == rest # <<>> /\ Normalized(rest[Len(rest)]) \in StatedSuffixes
        core == IF hasSuffix THEN SubSeq(rest, 1, Len(rest) - 1) ELSE rest
    IN [prefix |-> IF hasPrefix THEN toks[1] ELSE <<>>,
        suffix |-> IF hasSuffix THEN rest[Len(rest)] ELSE <<>>,
        additional |-> <<>>,
        given |-> IF core # <<>> THEN core[1]
                  ELSE IF toks # <<>> THEN toks[1] ELSE <<>>,
        family |-> IF Len(core) >= 2 THEN JoinedBySpaces(Tail(core)) ELSE <<>>]

IsStr(v) == DOMAIN v = 1..Len(v)

\* C10: _split_name tokenizes the display name on whitespace; the first token,
\* if stripped of trailing dots and lowercased it is in {mr, mrs, ms, dr,
\* prof}, is the prefix and is removed; the last remaining token, if under the
\* same normalization it is in {jr, sr, ii, iii, iv, phd, md}, is the suffix
\* and is removed; of the core tokens left: none => family empty and given the
\* first original token (empty when the name has no token at all); one =>
\* given that token, family empty; two or more => given the first, family the
\* rest joined by single spaces; additional is always empty and all five
\* fields are always present as strings.
C10_SplitName ==
    (fpc = "returned" /\ call.fn = "_split_name") =>
        /\ ret = SplitAsStated(WhitespaceTokens(call.s))
        /\ DOMAIN ret = {"family", "given", "additional", "prefix", "suffix"}
        /\ \A f \in DOMAIN ret : IsStr(ret[f])
        /\ ret.additional = <<>>

\* a name with a dotted prefix, a dotted suffix and a given name between them,
\* separated by tabs and blanks, has been split
C10_Witness ==
    /\ fpc = "returned"
    /\ call.fn = "_split_name"
    /\ \E k \in 1..Len(call.s) : call.s[k] = "\t"
    /\ ret.prefix = <<"M","R","S",".",".">>
    /\ ret.suffix = <<"P","h","D",".">>
    /\ ret.given = <<"A","n","n">>

------------------------------------------------------------------------------
(* C11 *)

IsDigit(c) == c \in {"0", "1", "2", "3", "4", "5", "6", "7", "8", "9"}

\* YYYY-MM-DD
DateOnlyPattern == <<"d", "d", "d", "d", "-", "d", "d", "-", "d", "d">>

\* s is a date-only ISO-8601 string
IsDateOnly(s) ==
    /\ Len(s) = Len(DateOnlyPattern)
    /\ \A k \in 1..Len(s) :
           IF DateOnlyPattern[k] = "d" THEN IsDigit(s[k]) ELSE s[k] = DateOnlyPattern[k]

\* s is a date followed by a time component
IsDateWithTime(s) ==
    /\ Len(s) > Len(DateOnlyPattern)
    /\ IsDateOnly(SubSeq(s, 1, Len(DateOnlyPattern)))
    /\ s[Len(DateOnlyPattern) + 1] \in {"T", " "}

\* the birthday C11 states for the raw value b of a component
BirthdayAsStated(b) ==
    IF IsNone(b) THEN None
    ELSE IF Get(b).t \in {"date", "datetime"} THEN Some(Get(b).date)
    ELSE IF IsDateOnly(Get(b).v) THEN Some(Get(b).v)
    ELSE IF IsDateWithTime(Get(b).v) THEN Some(SubSeq(Get(b).v, 1, Len(DateOnlyPattern)))
    ELSE None

\* every BDAY line emitted for the stored birthday b carries a date-only value
BdayLinesDateOnly(b) ==
    \A k \in 1..Len(BdayLines([bday |-> b])) :
        /\ StartsWith(BdayLines([bday |-> b])[k], S_BDAY)
        /\ IsDateOnly(SubSeq(BdayLines([bday |-> b])[k], Len(S_BDAY) + 1,
                             Len(BdayLines([bday |-> b])[k])))

\* C11: for every BDAY value of a component the birthday stored by
\* parse_vcards is absent or a date-only ISO-8601 string: a value with a time
\* component is truncated to its date part, a value that cannot be read as a
\* date degrades to absent, and so the serializer never emits a BDAY line
\* whose value is not a date-only string.
C11_DateOnlyBirthday ==
    (fpc = "returned" /\ call.fn = "parse_vcards.BDAY") =>
        /\ IsNone(ret) \/ IsDateOnly(Get(ret))
        /\ ret = BirthdayAsStated(call.s)
        /\ BdayLinesDateOnly(ret)

\* the same statement for the values that are no text: vobject dates and
\* datetimes, and a component without BDAY
C11_DateObjectsOnly ==
    (/\ fpc = "returned" /\ call.fn = "parse_vcards.BDAY"
     /\ (IsNone(call.s) \/ Get(call.s).t # "str")) =>
        /\ IsNone(ret) \/ IsDateOnly(Get(ret))
        /\ ret = BirthdayAsStated(call.s)
        /\ BdayLinesDateOnly(ret)

------------------------------------------------------------------------------
(* C12 *)

\* the ORG property of v is present but empty: no component, or only empty ones
EmptyOrg(v) ==
    ~IsNone(v.org) /\ \A k \in 1..Len(Get(v.org)) : Get(v.org)[k] = <<>>

\* the org field C12 states for component v
OrgAsStated(v) ==
    IF IsNone(v.org) \/ EmptyOrg(v) THEN None ELSE Some(Get(v.org))

\* the contacts parse_vcards holds carry the stated org fields, none of them
\* an empty list
OrgsAsStated(cs) ==
    \A k \in 1..Len(cs) :
        /\ cs[k].org # Some(<<>>)
        /\ cs[k].org = OrgAsStated(text[k])

\* C12: for every component the org field produced by parse_vcards is never an
\* empty list: it is None when the component has no ORG property and also when
\* the ORG property is present but empty, and otherwise it is the non-empty
\* ordered list of the ORG components as strings.
C12_OrgNeverEmptyList ==
    mode = "upload" =>
        /\ OrgsAsStated(contacts)
        /\ ~IsNone(result) => OrgsAsStated(Get(result))

\* the same statement for the texts in which no component has an empty ORG
C12_NoEmptyOrgInText ==
    (mode = "upload" /\ \A k \in 1..Len(text) : ~EmptyOrg(text[k])) =>
        /\ OrgsAsStated(contacts)
        /\ ~IsNone(result) => OrgsAsStated(Get(result))

====
